---- MODULE Spec2Model ----
(***************************************************************************)
(* A model of urkel-rs: the base-2 Merkle trie of src/src/tree.rs over the *)
(* append-only store of src/src/store.rs, with the node codec of           *)
(* src/src/nodes.rs and the proof verifier of src/src/proof.rs.            *)
(*                                                                         *)
(* Digests are symbolic terms (the hash is taken as injective): the zero   *)
(* digest is <<"zero">>, sha3(v) is <<"raw", v>>, a leaf pre-image is      *)
(* <<"leaf", key, bytes>> and an internal one <<"int", left, right>>.      *)
(* Keys are 256-bit digests of which only the leading KeyBits bits vary    *)
(* (the other bits are 0); a key is written as the number its leading bits *)
(* spell.  A data file is a sequence of byte cells: <<"b", n>> is the byte *)
(* n, <<"h", d, i>> is byte i of the (opaque) digest d, <<"c", p, i>> is   *)
(* byte i of the checksum of pre-image p.                                  *)
(***************************************************************************)
EXTENDS Integers, Sequences, FiniteSets, TLC

\* ---------------------------------------------------------------- bounds
KeyBits == 2
NumKeys == 3
MaxInserts == 3
MaxCommits == 2
MaxOpens == 1
CrashStride == 64

\* ------------------------------------------------------ program constants
keysize == 256
KEY_SIZE == 32
INTERNAL_NODE_SIZE == 76
LEAF_NODE_SIZE == 40
META_SIZE == 36
META_MAGIC == 1836411756
SLAB_SIZE == 1048572
MAX_VALUE_SIZE == 65535

\* ------------------------------------------------------------- the inputs
Keys == 0..((IF NumKeys < 2^KeyBits THEN NumKeys ELSE 2^KeyBits) - 1)
Values == {<<1>>, <<2, 3>>}
MetaKey == <<"metakey">>

None == <<>>
Some(v) == <<v>>
IsSome(o) == Len(o) = 1
Unwrap(o) == o[1]

\* ------------------------------------------------------------ hashutils.rs
ZeroHash == <<"zero">>

sha3(data) == <<"raw", data>>

sha3_leaf(key, value) == <<"leaf", key, value>>

sha3_value(key, value) == sha3_leaf(key, sha3(value))

sha3_internal(left, right) == <<"int", left, right>>

sha3_zero_hash == ZeroHash

checksum(data, meta_key) == <<"chk", data, meta_key>>

\* Bit `depth` of a key, bit 0 being the most significant bit of byte 0.
has_bit(key, depth) ==
    /\ depth < KeyBits
    /\ (key \div (2^(KeyBits - 1 - depth))) % 2 = 1

\* ------------------------------------------------------------- byte cells
Byte(n) == <<"b", n>>

IsByte(c) == c[1] = "b"

Zeros(n) == [i \in 1..n |-> Byte(0)]

\* Little-endian bytes of n, w bytes wide (write_u16 / write_u32).
LE(n, w) == [i \in 1..w |-> Byte((n \div (256^(i - 1))) % 256)]

RECURSIVE LEValue(_)
LEValue(cells) ==
    IF cells = <<>> THEN 0
    ELSE cells[1][2] + 256 * LEValue(Tail(cells))

\* read_u16 / read_u32 of cells: -1 when a cell is no plain byte (its
\* numeric value is a byte of a digest the model keeps opaque).
ReadLE(cells) ==
    IF \A i \in 1..Len(cells) : IsByte(cells[i]) THEN LEValue(cells) ELSE -1

ValueCells(v) == [i \in 1..Len(v) |-> Byte(v[i])]

AllBytes(cells) == \A i \in 1..Len(cells) : IsByte(cells[i])

CellsValue(cells) == [i \in 1..Len(cells) |-> cells[i][2]]

\* The 32 bytes of a key: its leading bits in byte 0, zeros after.
KeyCells(k) == <<Byte(k * (2^(8 - KeyBits)))>> \o Zeros(KEY_SIZE - 1)

KeyOk(cells) ==
    /\ \A i \in 1..Len(cells) : IsByte(cells[i])
    /\ \A i \in 2..Len(cells) : cells[i][2] = 0
    /\ cells[1][2] % (2^(8 - KeyBits)) = 0

CellsKey(cells) == cells[1][2] \div (2^(8 - KeyBits))

\* The 32 bytes of a digest: the zero digest is 32 zero bytes.
DigestCells(h) ==
    IF h = ZeroHash THEN Zeros(KEY_SIZE)
    ELSE [i \in 1..KEY_SIZE |-> <<"h", h, i>>]

CellsDigest(cells) ==
    IF \A i \in 1..Len(cells) : cells[i] = Byte(0) THEN ZeroHash
    ELSE IF /\ cells[1][1] = "h"
            /\ \A i \in 1..Len(cells) : cells[i] = <<"h", cells[1][2], i>>
         THEN cells[1][2]
         ELSE <<"junk", cells>>

ChecksumCells(p, n) == [i \in 1..n |-> <<"c", p, i>>]

\* ---------------------------------------------------------------- nodes.rs
Empty == [t |-> "Empty"]

NoRoot == [t |-> "None"]

\* A hash node that drops the hash it is given.
HashNodeDefault(index, pos, hash) ==
    [t |-> "Hash", pos |-> pos, index |-> index, hash |-> ZeroHash]

HashNode(index, pos, hash) ==
    [t |-> "Hash", pos |-> pos, index |-> index, hash |-> hash]

LeafNode(pos, index, hash, key, value, vindex, vpos, vsize) ==
    [t |-> "Leaf", pos |-> pos, index |-> index, hash |-> hash, key |-> key,
     value |-> value, vindex |-> vindex, vpos |-> vpos, vsize |-> vsize]

InternalNode(pos, index, hash, left, right) ==
    [t |-> "Internal", pos |-> pos, index |-> index, hash |-> hash,
     left |-> left, right |-> right]

is_leaf(n) ==
    CASE n.t = "Leaf" -> TRUE
      [] n.t = "Hash" -> n.pos % 2 = 1
      [] OTHER -> FALSE

should_save(n) == n.t = "Internal" /\ n.index = 0

index_and_position(n) ==
    IF n.t \in {"Leaf", "Internal", "Hash"} THEN <<n.index, n.pos>>
    ELSE <<0, 0>>

\* Node::hash that answers with the stored hash field of an internal node.
NodeHashStored(n) == IF n.t \in {"Hash", "Leaf", "Internal"} THEN n.hash ELSE ZeroHash

RECURSIVE NodeHash(_)
NodeHash(n) ==
    CASE n.t = "Empty" -> ZeroHash
      [] n.t = "Hash" -> n.hash
      [] n.t = "Leaf" -> n.hash
      [] n.t = "Internal" -> sha3_internal(NodeHash(n.left), NodeHash(n.right))
      [] OTHER -> ZeroHash

\* Node::leaf: the stored hash is the default (zero) digest.
NodeLeaf(key, value) == LeafNode(0, 0, ZeroHash, key, value, 0, 0, 0)

\* Node::encode of an internal that doubles the index of both children.
EncodeInternalBothTagged(n) ==
    LE(index_and_position(n.left)[1] * 2, 2)
    \o LE(index_and_position(n.left)[2], 4)
    \o DigestCells(NodeHash(n.left))
    \o LE(index_and_position(n.right)[1] * 2, 2)
    \o LE(index_and_position(n.right)[2], 4)
    \o DigestCells(NodeHash(n.right))

\* Node::encode.  A leaf without an in-memory value fails the assertion.
EncodeInternal(n) ==
    LE(index_and_position(n.left)[1] * 2, 2)
    \o LE(index_and_position(n.left)[2], 4)
    \o DigestCells(NodeHash(n.left))
    \o LE(index_and_position(n.right)[1], 2)
    \o LE(index_and_position(n.right)[2], 4)
    \o DigestCells(NodeHash(n.right))

EncodeLeaf(n) ==
    LE(n.vindex * 2 + 1, 2)
    \o LE(n.vpos, 4)
    \o LE(Len(Unwrap(n.value)), 2)
    \o KeyCells(n.key)

NodeEncode(n) ==
    IF n.t = "Internal" THEN [st |-> "ok", bits |-> EncodeInternal(n)]
    ELSE IF n.t = "Leaf" THEN
        IF IsSome(n.value) THEN [st |-> "ok", bits |-> EncodeLeaf(n)]
        ELSE [st |-> "panic", msg |-> "Leaf has no value!"]
    ELSE [st |-> "panic", msg |-> "not implemented"]

\* Node::decode of a leaf record without the check of the tag of vindex.
DecodeLeafNoParity(bits) ==
    LET vtag == ReadLE(SubSeq(bits, 1, 2))
        vpos == ReadLE(SubSeq(bits, 3, 6))
        vsize == ReadLE(SubSeq(bits, 7, 8))
        k == SubSeq(bits, 9, Len(bits))
    IN  IF Len(bits) # LEAF_NODE_SIZE
        THEN [st |-> "panic", msg |-> "node:decode - Not enough bits for a Leaf"]
        ELSE IF vtag < 0 \/ vpos < 0 \/ vsize < 0 \/ ~KeyOk(k) THEN [st |-> "garbage"]
        ELSE [st |-> "ok",
              node |-> LeafNode(0, 0, ZeroHash, CellsKey(k), None,
                                vtag \div 2, vpos, vsize)]

\* Node::decode.  st = "garbage": the bytes decoded are bytes of a digest,
\* whose value the model does not know: the outcome is not determined here.
DecodeLeaf(bits) ==
    LET vtag == ReadLE(SubSeq(bits, 1, 2))
        vpos == ReadLE(SubSeq(bits, 3, 6))
        vsize == ReadLE(SubSeq(bits, 7, 8))
        k == SubSeq(bits, 9, Len(bits))
    IN  IF Len(bits) # LEAF_NODE_SIZE
        THEN [st |-> "panic", msg |-> "node:decode - Not enough bits for a Leaf"]
        ELSE IF vtag < 0 THEN [st |-> "garbage"]
        ELSE IF vtag % 2 # 1 THEN [st |-> "panic", msg |-> "Database is corrupt!"]
        ELSE IF vpos < 0 \/ vsize < 0 \/ ~KeyOk(k) THEN [st |-> "garbage"]
        ELSE [st |-> "ok",
              node |-> LeafNode(0, 0, ZeroHash, CellsKey(k), None,
                                vtag \div 2, vpos, vsize)]

DecodeChild(index, posCells, hashCells) ==
    IF index # 0
    THEN HashNode(index, ReadLE(posCells), CellsDigest(hashCells))
    ELSE Empty

DecodeInternal(bits) ==
    LET ltag == ReadLE(SubSeq(bits, 1, 2))
        lpos == SubSeq(bits, 3, 6)
        lhash == SubSeq(bits, 7, 38)
        rindex == ReadLE(SubSeq(bits, 39, 40))
        rpos == SubSeq(bits, 41, 44)
        rhash == SubSeq(bits, 45, 76)
    IN  IF Len(bits) # INTERNAL_NODE_SIZE
        THEN [st |-> "panic", msg |-> "node.decode - Not enough bits for an Internal"]
        ELSE IF ltag < 0 THEN [st |-> "garbage"]
        ELSE IF ltag % 2 # 0 THEN [st |-> "panic", msg |-> "Database is corrupt!"]
        ELSE IF rindex < 0 THEN [st |-> "garbage"]
        ELSE IF (ltag \div 2 # 0 /\ ReadLE(lpos) < 0)
                \/ (rindex # 0 /\ ReadLE(rpos) < 0) THEN [st |-> "garbage"]
        ELSE [st |-> "ok",
              node |-> InternalNode(0, 0, ZeroHash,
                                    DecodeChild(ltag \div 2, lpos, lhash),
                                    DecodeChild(rindex, rpos, rhash))]

NodeDecode(bits, leaf) == IF leaf THEN DecodeLeaf(bits) ELSE DecodeInternal(bits)

\* ---------------------------------------------------------------- store.rs
\* The Store object: buffer, index, pos and the two meta states.  The data
\* directory is `disk`: disk[i] is the content of data file i.
DefaultMeta ==
    [meta_index |-> 0, meta_pos |-> 0, root_index |-> 0, root_pos |-> 0,
     root_leaf |-> FALSE]

NewStore ==
    [buffer |-> <<>>, index |-> 1, pos |-> 0,
     state |-> DefaultMeta, last_state |-> DefaultMeta]

Min(a, b) == IF a < b THEN a ELSE b

write_bytes(s, bits) ==
    [s EXCEPT !.buffer = @ \o bits, !.pos = @ + Len(bits)]

\* Store::write_node that leaves the leaf tag out of the position.
write_nodeUntagged(s, node) ==
    LET enc == NodeEncode(node)
    IN  IF enc.st # "ok" THEN enc
        ELSE [st |-> "ok",
              node |-> [node EXCEPT !.index = s.index, !.pos = s.pos * 2],
              s |-> write_bytes(s, enc.bits)]

\* Store::write_node: the node is encoded first, then takes the store's
\* index and the tagged position of the buffer's tail.
write_node(s, node) ==
    LET enc == NodeEncode(node)
        tag == IF node.t = "Leaf" THEN 1 ELSE 0
    IN  IF enc.st # "ok" THEN enc
        ELSE [st |-> "ok",
              node |-> [node EXCEPT !.index = s.index, !.pos = s.pos * 2 + tag],
              s |-> write_bytes(s, enc.bits)]

\* Store::write_value that sets the locator of the value and appends
\* nothing.
write_valueLocatorOnly(s, node) ==
    IF ~is_leaf(node) THEN [st |-> "panic", msg |-> "assertion failed: node.is_leaf()"]
    ELSE IF IsSome(node.value)
    THEN [st |-> "ok",
          node |-> [node EXCEPT !.vpos = s.pos, !.vindex = s.index,
                                !.vsize = Len(Unwrap(node.value))],
          s |-> s]
    ELSE [st |-> "ok", node |-> node, s |-> s]

\* Store::write_value: a leaf without an in-memory value writes nothing.
write_value(s, node) ==
    IF ~is_leaf(node) THEN [st |-> "panic", msg |-> "assertion failed: node.is_leaf()"]
    ELSE IF IsSome(node.value)
    THEN [st |-> "ok",
          node |-> [node EXCEPT !.vpos = s.pos, !.vindex = s.index,
                                !.vsize = Len(Unwrap(node.value))],
          s |-> write_bytes(s, ValueCells(Unwrap(node.value)))]
    ELSE [st |-> "ok", node |-> node, s |-> s]

\* Store::read: a missing file panics, a short read is an Err.
read(d, index, pos, size) ==
    IF index \notin DOMAIN d THEN [st |-> "panic", msg |-> "Couldn't find file"]
    ELSE IF pos + size > Len(d[index]) THEN [st |-> "err", msg |-> "failed to fill whole buffer"]
    ELSE [st |-> "ok", bits |-> SubSeq(d[index], pos + 1, pos + size)]

resolve(d, index, pos, leaf) ==
    LET r == read(d, index, pos \div 2,
                  IF leaf THEN LEAF_NODE_SIZE ELSE INTERNAL_NODE_SIZE)
    IN  IF r.st # "ok" THEN r ELSE NodeDecode(r.bits, leaf)

retrieve(d, vindex, vpos, vsize) == read(d, vindex, vpos, vsize)

\* MetaEntry::encode (store.rs): padding, then the 16 bytes of the record,
\* then the first 20 bytes of the checksum of those 16 bytes.
MetaPreimage(m) ==
    LE(META_MAGIC, 4) \o LE(m.meta_index, 2) \o LE(m.meta_pos, 4)
    \o LE(m.root_index, 2)
    \o LE(m.root_pos * 2 + (IF m.root_leaf THEN 1 ELSE 0), 4)

MetaEncode(m, buffer_pos, meta_key) ==
    Zeros(META_SIZE - (buffer_pos % META_SIZE))
    \o MetaPreimage(m)
    \o ChecksumCells(checksum(MetaPreimage(m), meta_key), 20)

\* MetaEntry::decode (store.rs): the computed checksum, 32 bytes long, is
\* compared with the bytes after the first 16, so it never matches them.
MetaDecode(bits, meta_key) ==
    LET preimage == SubSeq(bits, 1, 16)
        expected_checksum == SubSeq(bits, 17, Len(bits))
        chk == ChecksumCells(checksum(preimage, meta_key), KEY_SIZE)
        root_pos == ReadLE(SubSeq(bits, 13, 16))
    IN  IF Len(bits) < 16 THEN [st |-> "panic", msg |-> "range end index out of range"]
        ELSE IF ReadLE(SubSeq(bits, 1, 4)) # META_MAGIC
        THEN [st |-> "panic", msg |-> "Invalid meta magic number"]
        ELSE IF Len(expected_checksum) # 20
        THEN [st |-> "panic", msg |-> "meta checksum has wrong size"]
        ELSE IF chk # expected_checksum
        THEN [st |-> "panic", msg |-> "Invalid metaroot checksum!"]
        ELSE [st |-> "ok",
              meta |-> [meta_index |-> ReadLE(SubSeq(bits, 5, 6)),
                        meta_pos |-> ReadLE(SubSeq(bits, 7, 10)),
                        root_index |-> ReadLE(SubSeq(bits, 11, 12)),
                        root_pos |-> root_pos \div 2,
                        root_leaf |-> root_pos % 2 = 1]]

\* MetaEntry::decode (metadata.rs): the first 20 bytes of the computed
\* checksum are compared with bytes 16..36.
MetaDecodeMetadata(bits, meta_key) ==
    LET preimage == SubSeq(bits, 1, 16)
        expected_checksum == SubSeq(bits, 17, 36)
        preimage_chk == ChecksumCells(checksum(preimage, meta_key), 20)
        root_pos == ReadLE(SubSeq(bits, 13, 16))
    IN  IF Len(bits) < META_SIZE
        THEN [st |-> "panic", msg |-> "range end index out of range"]
        ELSE IF ReadLE(SubSeq(bits, 1, 4)) # META_MAGIC
        THEN [st |-> "panic", msg |-> "Invalid meta magic number"]
        ELSE IF preimage_chk # expected_checksum
        THEN [st |-> "panic", msg |-> "Invalid metaroot checksum!"]
        ELSE [st |-> "ok",
              meta |-> [meta_index |-> ReadLE(SubSeq(bits, 5, 6)),
                        meta_pos |-> ReadLE(SubSeq(bits, 7, 10)),
                        root_index |-> ReadLE(SubSeq(bits, 11, 12)),
                        root_pos |-> root_pos \div 2,
                        root_leaf |-> root_pos % 2 = 1]]

\* Store::commit: with a root, the meta-record of the root is appended to
\* the buffer; the buffer is appended to the active file and cleared, and
\* pos is set to 0.
StoreCommitMeta(s, root_node) ==
    IF IsSome(root_node)
    THEN LET n == Unwrap(root_node)
             st2 == [s.state EXCEPT !.root_index = index_and_position(n)[1],
                                    !.root_pos = index_and_position(n)[2],
                                    !.root_leaf = is_leaf(n)]
         IN  write_bytes([s EXCEPT !.state = st2],
                         MetaEncode(st2, s.pos, MetaKey))
    ELSE s

AppendFile(d, index, bits) ==
    IF index \in DOMAIN d THEN [d EXCEPT ![index] = @ \o bits]
    ELSE Append(d, bits)

StoreCommit(s, d, root_node) ==
    LET s2 == StoreCommitMeta(s, root_node)
    IN  [s |-> [s2 EXCEPT !.buffer = <<>>, !.pos = 0],
         d |-> AppendFile(d, s2.index, s2.buffer)]

\* Store::recover_state on one file: the window buffer `buf` starts empty,
\* so the window read is `buf.len()` = 0 bytes long.
RECURSIVE ScanWindow(_, _, _, _, _, _)
RECURSIVE FindMeta(_, _, _, _, _)
ScanWindow(file, file_index, meta_key, off, size, buf) ==
    IF size < META_SIZE THEN FindMeta(file, file_index, meta_key, off, buf)
    ELSE IF Len(buf) < 4 THEN [st |-> "panic", msg |-> "read_u32: buffer too short"]
    ELSE IF ReadLE(SubSeq(buf, 1, 4)) = META_MAGIC
    THEN ScanWindow(file, file_index, meta_key, off - META_SIZE, size - META_SIZE, buf)
    ELSE LET m == MetaDecode(buf, meta_key)
         IN  IF m.st = "ok"
             THEN [st |-> "ok",
                   state |-> [m.meta EXCEPT !.meta_index = file_index,
                                            !.meta_pos = off - META_SIZE],
                   last_state |-> m.meta]
             ELSE m

FindMeta(file, file_index, meta_key, off, buf) ==
    IF off < META_SIZE THEN [st |-> "none"]
    ELSE LET slab_length == Len(buf)
             pos == IF off >= slab_length THEN off - slab_length ELSE 0
             size == IF off >= slab_length THEN slab_length ELSE off
             buf2 == buf \o SubSeq(file, pos + 1, Min(pos + size, Len(file)))
         IN  IF buf2 = <<>>
             THEN [st |-> "panic", msg |-> "recover: no data in the buffer!"]
             ELSE ScanWindow(file, file_index, meta_key, off, size, buf2)

\* The loop over the data files.  `files` is sorted with the highest index
\* first, so files[file_index - 1] is the file of index
\* Len(d) + 1 - file_index: the scan of a file uses that file's size.
RECURSIVE recover_state(_, _, _)
recover_state(d, file_index, meta_key) ==
    IF file_index < 1 THEN [st |-> "none"]
    ELSE LET size == Len(d[Len(d) + 1 - file_index])
             r == FindMeta(d[file_index], file_index, meta_key,
                           size - (size % META_SIZE), <<>>)
         IN  IF r.st = "none" THEN recover_state(d, file_index - 1, meta_key)
             ELSE r

\* recover_meta (metadata.rs): each window is read after what the buffer
\* already holds; a candidate that carries the magic number is decoded, and
\* decode panics on a checksum that does not match.
RECURSIVE RecoverMetaScan(_, _, _, _, _, _)
RECURSIVE RecoverMetaWindow(_, _, _, _, _)
RecoverMetaScan(file, file_index, meta_key, off, size, buffer) ==
    IF size < META_SIZE
    THEN RecoverMetaWindow(file, file_index, meta_key, off, buffer)
    ELSE LET size2 == size - META_SIZE
             off2 == off - META_SIZE
         IN  IF Len(buffer) < size2 + 4
             THEN [st |-> "err", msg |-> "failed to fill whole buffer"]
             ELSE IF SubSeq(buffer, size2 + 1, size2 + 4) # LE(META_MAGIC, 4)
             THEN RecoverMetaScan(file, file_index, meta_key, off2, size2, buffer)
             ELSE LET m == MetaDecodeMetadata(
                               SubSeq(buffer, size2 + 1,
                                      Min(size2 + META_SIZE, Len(buffer))),
                               meta_key)
                  IN  IF m.st = "ok"
                      THEN [st |-> "ok",
                            state |-> [m.meta EXCEPT !.meta_index = file_index,
                                                     !.meta_pos = size2],
                            last_state |-> m.meta]
                      ELSE IF m.st = "panic" THEN m
                      ELSE RecoverMetaScan(file, file_index, meta_key,
                                           off2, size2, buffer)

RecoverMetaWindow(file, file_index, meta_key, off, buffer) ==
    IF off < META_SIZE
    THEN [st |-> "err", msg |-> "Didn't find it! What's a meta with you?"]
    ELSE LET pos == IF off >= SLAB_SIZE THEN off - SLAB_SIZE ELSE 0
             size == IF off >= SLAB_SIZE THEN SLAB_SIZE ELSE off
             buffer2 == buffer \o SubSeq(file, pos + 1, Min(pos + size, Len(file)))
         IN  IF buffer2 = <<>>
             THEN [st |-> "panic", msg |-> "Buffer is empty!"]
             ELSE RecoverMetaScan(file, file_index, meta_key, off, size, buffer2)

recover_meta(file, file_index, meta_key) ==
    RecoverMetaWindow(file, file_index, meta_key,
                      Len(file) - (Len(file) % META_SIZE), <<>>)

\* Store::open: a directory without data files gives a new store; otherwise
\* the state must be recovered (`expect`).
StoreOpen(d) ==
    IF Len(d) = 0 THEN [st |-> "ok", s |-> NewStore]
    ELSE LET r == recover_state(d, Len(d), MetaKey)
         IN  IF r.st = "ok"
             THEN [st |-> "ok",
                   s |-> [buffer |-> <<>>, index |-> Len(d), pos |-> Len(d[Len(d)]),
                          state |-> r.state, last_state |-> r.last_state]]
             ELSE IF r.st = "none"
             THEN [st |-> "panic", msg |-> "Failed loading state"]
             ELSE r

\* ---------------------------------------------------------------- proof.rs
NewProof ==
    [proof_type |-> "Deadend", node_hashes |-> <<>>, key |-> None,
     hash |-> None, value |-> None]

is_sane(p, bits) ==
    CASE p.proof_type = "Exists" ->
            /\ ~IsSome(p.key)
            /\ ~IsSome(p.hash)
            /\ IsSome(p.value)
            /\ Len(Unwrap(p.value)) <= MAX_VALUE_SIZE
      [] p.proof_type = "Collision" ->
            /\ IsSome(p.key)
            /\ IsSome(p.hash)
            /\ ~IsSome(p.value)
            /\ KEY_SIZE = bits \div 8
      [] OTHER -> FALSE

\* The leaf input of the fold (the proof passed is_sane).
VerifyLeaf(p, key) ==
    CASE p.proof_type = "Deadend" -> sha3_zero_hash
      [] p.proof_type = "Collision" -> sha3_leaf(Unwrap(p.key), Unwrap(p.hash))
      [] OTHER -> sha3_value(key, Unwrap(p.value))

\* The loop of verify over node_hashes[1..n] in reverse, depth clamped at 0.
RECURSIVE VerifyFold(_, _, _, _, _)
VerifyFold(hashes, n, next, key, depth) ==
    IF n = 0 THEN next
    ELSE VerifyFold(hashes, n - 1,
                    IF has_bit(key, depth) THEN sha3_internal(hashes[n], next)
                    ELSE sha3_internal(next, hashes[n]),
                    key,
                    IF depth > 0 THEN depth - 1 ELSE depth)

\* Proof::verify.  checks: the build checks integer overflow (debug), so
\* `self.depth() - 1` of a proof without witnesses panics; otherwise it
\* wraps and the loop runs zero times.  p: the proof after the call.
Verify(p, root_hash, key, bits, checks) ==
    IF ~is_sane(p, bits) THEN [st |-> "err", err |-> "Unknown", p |-> p]
    ELSE IF p.proof_type = "Collision" /\ p.key = Some(key)
    THEN [st |-> "err", err |-> "Same Key", p |-> p]
    ELSE IF Len(p.node_hashes) = 0 /\ checks
    THEN [st |-> "panic", msg |-> "attempt to subtract with overflow", p |-> p]
    ELSE IF VerifyFold(p.node_hashes, Len(p.node_hashes), VerifyLeaf(p, key),
                       key, Len(p.node_hashes) - 1) # root_hash
    THEN [st |-> "err", err |-> "Head Mismatch", p |-> p]
    ELSE IF IsSome(p.value)
    THEN [st |-> "ok", val |-> Unwrap(p.value), p |-> [p EXCEPT !.value = None]]
    ELSE [st |-> "err", err |-> "Bad Verification", p |-> p]

\* ----------------------------------------------------------------- tree.rs
get_root(r) == IF r.t = "None" THEN ZeroHash ELSE NodeHash(r)

\* The skip-compression loop of insert: the first depth at which the keys
\* differ (two different keys differ below KeyBits).
RECURSIVE SkipDepth(_, _, _)
SkipDepth(nkey, key, depth) ==
    IF has_bit(nkey, depth) = has_bit(key, depth) /\ depth < keysize
    THEN SkipDepth(nkey, key, depth + 1)
    ELSE depth

\* A skip-compression loop that pushes no Empty node.
EmptiesNone(n) == <<>>

Empties(n) == [i \in 1..n |-> Empty]

\* The descent loop of insert.  k = "break": the loop ended with the stack
\* to_hash and depth; k = "noop": the early return, which stores the node
\* the descent stands on as the root.
RECURSIVE InsertDescend(_, _, _, _, _, _)
InsertDescend(d, cur, depth, to_hash, nkey, leaf_hash) ==
    CASE cur.t = "Empty" ->
            [k |-> "break", depth |-> depth, to_hash |-> to_hash]
      [] cur.t = "Hash" ->
            LET r == resolve(d, cur.index, cur.pos, is_leaf(cur))
            IN  IF r.st = "ok"
                THEN InsertDescend(d, r.node, depth, to_hash, nkey, leaf_hash)
                ELSE IF r.st = "err"
                THEN [k |-> "panic", msg |-> "Failed to resolve Hashnode"]
                ELSE [k |-> r.st, msg |-> "resolve"]
      [] cur.t = "Leaf" ->
            IF nkey = cur.key
            THEN IF leaf_hash = cur.hash
                 THEN [k |-> "noop", root |-> cur]
                 ELSE [k |-> "break", depth |-> depth, to_hash |-> to_hash]
            ELSE LET d2 == SkipDepth(nkey, cur.key, depth)
                 IN  [k |-> "break", depth |-> d2 + 1,
                      to_hash |-> to_hash \o Empties(d2 - depth)
                                  \o <<NodeLeaf(cur.key, cur.value)>>]
      [] cur.t = "Internal" ->
            IF depth = keysize
            THEN [k |-> "panic", msg |-> "Insert: missing node at depth"]
            ELSE IF has_bit(nkey, depth)
            THEN InsertDescend(d, cur.right, depth + 1,
                               Append(to_hash, cur.left), nkey, leaf_hash)
            ELSE InsertDescend(d, cur.left, depth + 1,
                               Append(to_hash, cur.right), nkey, leaf_hash)
      [] OTHER -> [k |-> "panic", msg |-> "called Option::unwrap() on a None value"]

\* The bottom-up loop of insert: to_hash[n] is node n of the stack.
RECURSIVE Rebuild(_, _, _, _)
Rebuild(to_hash, n, new_root, nkey) ==
    IF n = 0 THEN new_root
    ELSE Rebuild(to_hash, n - 1,
                 IF has_bit(nkey, n - 1)
                 THEN InternalNode(0, 0, ZeroHash, to_hash[n], new_root)
                 ELSE InternalNode(0, 0, ZeroHash, new_root, to_hash[n]),
                 nkey)

\* UrkelTree::insert with a new leaf that keeps no value in memory.
TreeInsertNoValue(d, r, nkey, value) ==
    LET leaf_hash == sha3_value(nkey, value)
        w == InsertDescend(d, r, 0, <<>>, nkey, leaf_hash)
    IN  IF w.k = "noop" THEN [st |-> "ok", root |-> w.root]
        ELSE IF w.k = "break"
        THEN [st |-> "ok",
              root |-> Rebuild(w.to_hash, Len(w.to_hash),
                               LeafNode(0, 0, leaf_hash, nkey, None, 0, 0, 0),
                               nkey)]
        ELSE [st |-> w.k, msg |-> w.msg]

\* UrkelTree::insert: st = "ok" with the new root, or the panic.
TreeInsert(d, r, nkey, value) ==
    LET leaf_hash == sha3_value(nkey, value)
        w == InsertDescend(d, r, 0, <<>>, nkey, leaf_hash)
    IN  IF w.k = "noop" THEN [st |-> "ok", root |-> w.root]
        ELSE IF w.k = "break"
        THEN [st |-> "ok",
              root |-> Rebuild(w.to_hash, Len(w.to_hash),
                               LeafNode(0, 0, leaf_hash, nkey, Some(value), 0, 0, 0),
                               nkey)]
        ELSE [st |-> w.k, msg |-> w.msg]

\* UrkelTree::get on a copy of the root.
RECURSIVE TreeGetFrom(_, _, _, _)
TreeGetFrom(d, cur, depth, nkey) ==
    CASE cur.t = "Leaf" ->
            IF nkey # cur.key THEN [st |-> "ok", val |-> None]
            ELSE IF IsSome(cur.value) THEN [st |-> "ok", val |-> cur.value]
            ELSE LET r == retrieve(d, cur.vindex, cur.vpos, cur.vsize)
                 IN  IF r.st = "ok"
                     THEN IF AllBytes(r.bits)
                          THEN [st |-> "ok", val |-> Some(CellsValue(r.bits))]
                          ELSE [st |-> "garbage", msg |-> "value"]
                     ELSE IF r.st = "err" THEN [st |-> "ok", val |-> None]
                     ELSE [st |-> r.st, msg |-> r.msg]
      [] cur.t = "Internal" ->
            IF has_bit(nkey, depth)
            THEN TreeGetFrom(d, cur.right, depth + 1, nkey)
            ELSE TreeGetFrom(d, cur.left, depth + 1, nkey)
      [] cur.t = "Hash" ->
            LET r == resolve(d, cur.index, cur.pos, is_leaf(cur))
            IN  IF r.st = "ok" THEN TreeGetFrom(d, r.node, depth, nkey)
                ELSE IF r.st = "err"
                THEN [st |-> "panic", msg |-> "Failed to resolve Hashnode"]
                ELSE [st |-> r.st, msg |-> "resolve"]
      [] cur.t = "Empty" -> [st |-> "ok", val |-> None]
      [] OTHER -> [st |-> "panic", msg |-> "called Option::unwrap() on a None value"]

TreeGet(d, r, nkey) == TreeGetFrom(d, r, 0, nkey)

\* UrkelTree::prove on a copy of the root.
RECURSIVE TreeProveFrom(_, _, _, _, _)
TreeProveFrom(d, cur, depth, proof, nkey) ==
    CASE cur.t = "Empty" -> [st |-> "ok", proof |-> proof]
      [] cur.t = "Hash" ->
            LET r == resolve(d, cur.index, cur.pos, is_leaf(cur))
            IN  IF r.st = "ok" THEN TreeProveFrom(d, r.node, depth, proof, nkey)
                ELSE IF r.st = "err"
                THEN [st |-> "panic", msg |-> "Failed to resolve Hashnode"]
                ELSE [st |-> r.st, msg |-> "resolve"]
      [] cur.t = "Internal" ->
            IF depth = keysize
            THEN [st |-> "panic", msg |-> "Proof: missing node at depth"]
            ELSE IF has_bit(nkey, depth)
            THEN TreeProveFrom(d, cur.right, depth + 1,
                               [proof EXCEPT !.node_hashes = Append(@, NodeHash(cur.left))],
                               nkey)
            ELSE TreeProveFrom(d, cur.left, depth + 1,
                               [proof EXCEPT !.node_hashes = Append(@, NodeHash(cur.right))],
                               nkey)
      [] cur.t = "Leaf" ->
            LET r == retrieve(d, cur.vindex, cur.vpos, cur.vsize)
            IN  IF r.st = "err" THEN [st |-> "panic", msg |-> "Missing leaf value"]
                ELSE IF r.st # "ok" THEN [st |-> r.st, msg |-> r.msg]
                ELSE IF ~AllBytes(r.bits) THEN [st |-> "garbage", msg |-> "value"]
                ELSE IF nkey = cur.key
                THEN [st |-> "ok",
                      proof |-> [proof EXCEPT !.proof_type = "Exists",
                                              !.value = Some(CellsValue(r.bits))]]
                ELSE [st |-> "ok",
                      proof |-> [proof EXCEPT !.proof_type = "Collision",
                                              !.key = Some(cur.key),
                                              !.hash = Some(sha3(CellsValue(r.bits)))]]
      [] OTHER -> [st |-> "panic", msg |-> "called Option::unwrap() on a None value"]

TreeProve(d, r, nkey) == TreeProveFrom(d, r, 0, NewProof, nkey)

\* UrkelTree::write: children first, then the node; the result is the hash
\* node of what was written, with the store after the writes.
RECURSIVE TreeWrite(_, _)
TreeWrite(node, s) ==
    CASE node.t = "Empty" -> [st |-> "ok", node |-> Empty, s |-> s]
      [] node.t = "Internal" ->
            LET l == TreeWrite(node.left, s)
            IN  IF l.st # "ok" THEN l
                ELSE
                LET r == TreeWrite(node.right, l.s)
                IN  IF r.st # "ok" THEN r
                    ELSE
                    LET tempnode == InternalNode(node.pos, node.index, node.hash,
                                                 l.node, r.node)
                        hashed == NodeHash(tempnode)
                        w == IF node.index = 0 THEN write_node(r.s, tempnode)
                             ELSE [st |-> "ok", node |-> tempnode, s |-> r.s]
                    IN  IF w.st # "ok" THEN w
                        ELSE IF should_save(w.node)
                        THEN [st |-> "panic", msg |-> "Didn't persist the node"]
                        ELSE [st |-> "ok",
                              node |-> HashNode(w.node.index, w.node.pos, hashed),
                              s |-> w.s]
      [] node.t = "Leaf" ->
            LET v == write_value(s, node)
            IN  IF v.st # "ok" THEN v
                ELSE
                LET w == write_node(v.s, v.node)
                IN  IF w.st # "ok" THEN w
                    ELSE IF should_save(w.node)
                    THEN [st |-> "panic", msg |-> "Didn't persist the node"]
                    ELSE [st |-> "ok",
                          node |-> HashNode(w.node.index, w.node.pos, NodeHash(w.node)),
                          s |-> w.s]
      [] node.t = "Hash" -> [st |-> "ok", node |-> node, s |-> s]
      [] OTHER -> [st |-> "panic", msg |-> "no root"]

\* UrkelTree::commit that flushes the records and keeps the in-memory root.
TreeCommitKeepRoot(d, r, s) ==
    LET w == TreeWrite(r, s)
    IN  IF w.st # "ok" THEN w
        ELSE LET c == StoreCommit(w.s, d, None)
             IN  [st |-> "ok", root |-> r, s |-> c.s, d |-> c.d]

\* UrkelTree::commit: the root is written, then the store commits without
\* being given the new root (tree.rs:239), so no meta-record is appended.
TreeCommit(d, r, s) ==
    LET w == TreeWrite(r, s)
    IN  IF w.st # "ok" THEN w
        ELSE LET c == StoreCommit(w.s, d, None)
             IN  [st |-> "ok", root |-> w.node, s |-> c.s, d |-> c.d]

\* ------------------------------------------------------------ the system
\* root, store: the UrkelTree and its Store; disk: the data directory;
\* status: "open" (a tree is live), "closed" (the tree was dropped or the
\* process stopped), "panicked" (an operation panicked), "garbage" (an
\* operation decoded bytes the model keeps opaque); proof: the proof the
\* caller holds, with its query key, until its next call other than verify.
\* History variables: kv (the value last inserted per key), log (the
\* inserts of this tree, in order), snaps (root hash and kv at each commit),
\* last (the last operation and its result), and the counters.
VARIABLES root, store, disk, status, proof, kv, log, snaps, last,
          inserts, commits, opens

vars == <<root, store, disk, status, proof, kv, log, snaps, last,
          inserts, commits, opens>>

NoProof == <<>>

EmptyKv == [k \in Keys |-> None]

Init ==
    /\ root = Empty
    /\ store = NewStore
    /\ disk = <<>>
    /\ status = "open"
    /\ proof = NoProof
    /\ kv = EmptyKv
    /\ log = <<>>
    /\ snaps = <<>>
    /\ last = [op |-> "new"]
    /\ inserts = 0
    /\ commits = 0
    /\ opens = 0

AllGets(d, r) == [k \in Keys |-> TreeGet(d, r, k)]

\* t.insert(k, v)
Insert(k, v) ==
    /\ status = "open"
    /\ inserts < MaxInserts
    /\ LET r == TreeInsert(disk, root, k, v)
       IN  /\ root' = IF r.st = "ok" THEN r.root ELSE NoRoot
           /\ status' = IF r.st = "ok" THEN "open"
                        ELSE IF r.st = "garbage" THEN "garbage" ELSE "panicked"
           /\ kv' = IF r.st = "ok" THEN [kv EXCEPT ![k] = Some(v)] ELSE kv
           /\ log' = IF r.st = "ok" THEN Append(log, <<k, v>>) ELSE log
           /\ last' = [op |-> "insert", key |-> k, value |-> v, st |-> r.st,
                       pre_root |-> get_root(root),
                       pre_kv |-> kv,
                       pre_get |-> AllGets(disk, root)]
    /\ inserts' = inserts + 1
    /\ proof' = NoProof
    /\ UNCHANGED <<store, disk, snaps, commits, opens>>

\* t.get(k) that keeps the node it resolved from a hash-node root as the
\* root of the tree.
GetResolving(k) ==
    /\ status = "open"
    /\ LET r == TreeGet(disk, root, k)
           n == IF root.t = "Hash"
                THEN resolve(disk, root.index, root.pos, is_leaf(root))
                ELSE [st |-> "none"]
       IN  /\ status' = IF r.st = "ok" THEN "open"
                        ELSE IF r.st = "garbage" THEN "garbage" ELSE "panicked"
           /\ last' = [op |-> "get", key |-> k, res |-> r]
           /\ root' = IF n.st = "ok" THEN n.node ELSE root
    /\ proof' = NoProof
    /\ UNCHANGED <<store, disk, kv, log, snaps, inserts, commits, opens>>

\* t.get(k)
Get(k) ==
    /\ status = "open"
    /\ LET r == TreeGet(disk, root, k)
       IN  /\ status' = IF r.st = "ok" THEN "open"
                        ELSE IF r.st = "garbage" THEN "garbage" ELSE "panicked"
           /\ last' = [op |-> "get", key |-> k, res |-> r]
    /\ proof' = NoProof
    /\ UNCHANGED <<root, store, disk, kv, log, snaps, inserts, commits, opens>>

\* t.prove(k): the caller keeps the proof.
Prove(k) ==
    /\ status = "open"
    /\ LET r == TreeProve(disk, root, k)
       IN  /\ status' = IF r.st = "ok" THEN "open"
                        ELSE IF r.st = "garbage" THEN "garbage" ELSE "panicked"
           /\ proof' = IF r.st = "ok" THEN <<[key |-> k, p |-> r.proof]>> ELSE NoProof
           /\ last' = [op |-> "prove", key |-> k, res |-> r]
    /\ UNCHANGED <<root, store, disk, kv, log, snaps,
                   inserts, commits, opens>>

\* p.verify(t.get_root(), k, 256) on the proof the caller holds, in a build
\* that checks integer overflow or in one that does not.
VerifyProof(checks) ==
    /\ status = "open"
    /\ proof # NoProof
    /\ LET r == Verify(proof[1].p, get_root(root), proof[1].key, keysize, checks)
       IN  /\ status' = IF r.st = "panic" THEN "panicked" ELSE "open"
           /\ proof' = <<[proof[1] EXCEPT !.p = r.p]>>
           /\ last' = [op |-> "verify", key |-> proof[1].key, res |-> r,
                       before |-> proof[1].p, checks |-> checks]
    /\ UNCHANGED <<root, store, disk, kv, log, snaps,
                   inserts, commits, opens>>

\* t.commit()
Commit ==
    /\ status = "open"
    /\ commits < MaxCommits
    /\ LET r == TreeCommit(disk, root, store)
       IN  /\ root' = IF r.st = "ok" THEN r.root ELSE NoRoot
           /\ store' = IF r.st = "ok" THEN r.s ELSE store
           /\ disk' = IF r.st = "ok" THEN r.d ELSE disk
           /\ status' = IF r.st = "ok" THEN "open" ELSE "panicked"
           /\ snaps' = IF r.st = "ok"
                       THEN Append(snaps, [root |-> get_root(root), kv |-> kv,
                                           size |-> Len(r.d[r.s.index])])
                       ELSE snaps
           /\ last' = [op |-> "commit", st |-> r.st, pre_root |-> get_root(root),
                       pre_get |-> AllGets(disk, root)]
    /\ commits' = commits + 1
    /\ proof' = NoProof
    /\ UNCHANGED <<kv, log, inserts, opens>>

\* The tree is dropped: what was not flushed is lost.
Close ==
    /\ status = "open"
    /\ opens < MaxOpens
    /\ root' = NoRoot
    /\ store' = NewStore
    /\ status' = "closed"
    /\ proof' = NoProof
    /\ last' = [op |-> "close"]
    /\ UNCHANGED <<disk, kv, log, snaps, inserts, commits, opens>>

CrashPoints(buf) ==
    {n \in 0..Len(buf) : n % CrashStride = 0 \/ n = Len(buf) - 1}

CommitBuffer == TreeWrite(root, store)

\* The process stops during t.commit(): the root was written to the buffer
\* and n bytes of the buffer reached the active file.
CrashInCommit(n) ==
    /\ status = "open"
    /\ opens < MaxOpens
    /\ commits < MaxCommits
    /\ LET w == CommitBuffer
       IN  /\ disk' = AppendFile(disk, w.s.index, SubSeq(w.s.buffer, 1, n))
           /\ last' = [op |-> "crash", written |-> n, of |-> Len(w.s.buffer)]
    /\ root' = NoRoot
    /\ store' = NewStore
    /\ status' = "closed"
    /\ proof' = NoProof
    /\ UNCHANGED <<kv, log, snaps, inserts, commits, opens>>

\* The last META_SIZE bytes of the data file are removed while no tree is
\* open.
Truncate ==
    /\ status = "closed"
    /\ last.op = "close"
    /\ Len(disk) = 1
    /\ Len(disk[1]) >= META_SIZE
    /\ disk' = [disk EXCEPT ![1] = SubSeq(@, 1, Len(@) - META_SIZE)]
    /\ last' = [op |-> "truncate"]
    /\ UNCHANGED <<root, store, status, proof, kv, log, snaps,
                   inserts, commits, opens>>

\* UrkelTree::new() over Store::open: the root is always Empty.
Open ==
    /\ status \in {"closed", "panicked"}
    /\ opens < MaxOpens
    /\ LET r == StoreOpen(disk)
       IN  /\ status' = IF r.st = "ok" THEN "open" ELSE "panicked"
           /\ root' = IF r.st = "ok" THEN Empty ELSE NoRoot
           /\ store' = IF r.st = "ok" THEN r.s ELSE NewStore
           /\ last' = [op |-> "open", st |-> r.st, from |-> last.op,
                       torn |-> IF last.op = "crash" THEN last.of - last.written
                                ELSE 0]
    /\ opens' = opens + 1
    /\ log' = <<>>
    /\ kv' = IF snaps = <<>> THEN EmptyKv ELSE snaps[Len(snaps)].kv
    /\ proof' = NoProof
    /\ UNCHANGED <<disk, snaps, inserts, commits>>

Next ==
    \/ \E k \in Keys, v \in Values : Insert(k, v)
    \/ \E k \in Keys : Get(k)
    \/ \E k \in Keys : Prove(k)
    \/ \E c \in BOOLEAN : VerifyProof(c)
    \/ Commit
    \/ Close
    \/ /\ CommitBuffer.st = "ok"
       /\ \E n \in CrashPoints(CommitBuffer.s.buffer) : CrashInCommit(n)
    \/ Truncate
    \/ Open

Spec == Init /\ [][Next]_vars

\* ------------------------------------------------------------- the claims
Ok(v) == [st |-> "ok", val |-> v]

InsertDone == status = "open" /\ last.op = "insert" /\ last.st = "ok"

\* C1: right after an insert(k, v) that returned, get(k) returns v, also
\* when k was present with another value and when the tree was committed.
C1_InsertThenGet ==
    InsertDone => TreeGet(disk, root, last.key) = Ok(Some(last.value))

C1_Witness ==
    /\ InsertDone
    /\ commits >= 1
    /\ IsSome(last.pre_kv[last.key])
    /\ last.pre_kv[last.key] # Some(last.value)
    /\ TreeGet(disk, root, last.key) = Ok(Some(last.value))

\* C2: an insert(k, v) that returned and that is no repeat of the pair k
\* holds leaves get(k') as it was for every other key k' that had a value
\* before it.
C2_InsertFrame ==
    (InsertDone /\ last.pre_kv[last.key] # Some(last.value)) =>
        \A k2 \in Keys \ {last.key} :
            (last.pre_get[k2].st = "ok" /\ IsSome(last.pre_get[k2].val))
                => TreeGet(disk, root, k2) = last.pre_get[k2]

\* C3: an insert(k, v) of a key that holds v already leaves get_root() and
\* the other keys as they were.
C3_IdempotentInsert ==
    (InsertDone /\ last.pre_kv[last.key] = Some(last.value)) =>
        /\ get_root(root) = last.pre_root
        /\ \A k2 \in Keys \ {last.key} : TreeGet(disk, root, k2) = last.pre_get[k2]

\* The tree that inserting log[i..] into r gives.
RECURSIVE InsertAll(_, _, _)
InsertAll(r, seq, i) ==
    IF i > Len(seq) THEN r
    ELSE InsertAll(TreeInsert(<<>>, r, seq[i][1], seq[i][2]).root, seq, i + 1)

Orders(n) == {p \in [1..n -> 1..n] : \A i, j \in 1..n : p[i] = p[j] => i = j}

DistinctKeys(seq) == \A i, j \in 1..Len(seq) : seq[i][1] = seq[j][1] => i = j

\* C4: a tree built from the empty tree by inserts of distinct keys has the
\* root hash of the tree built by the same inserts in any other order.
C4_OrderIndependence ==
    (status = "open" /\ commits = 0 /\ opens = 0 /\ DistinctKeys(log)) =>
        \A p \in Orders(Len(log)) :
            get_root(InsertAll(Empty, [i \in 1..Len(log) |-> log[p[i]]], 1))
                = get_root(root)

\* C5: for every key k that holds v, prove(k) returns an Exists proof and
\* its verify(get_root(), k, 256) returns v.
C5_ProveVerifyExists ==
    status = "open" =>
        \A k \in Keys : IsSome(kv[k]) =>
            LET r == TreeProve(disk, root, k)
            IN  /\ r.st = "ok"
                /\ r.proof.proof_type = "Exists"
                /\ \A c \in BOOLEAN :
                       LET y == Verify(r.proof, get_root(root), k, keysize, c)
                       IN  y.st = "ok" /\ Some(y.val) = kv[k]

ProofErrors == {"Unknown", "Same Key", "Head Mismatch", "Bad Verification"}

\* C6: for every key k that holds no value, a Collision or Deadend proof
\* that prove(k) returns makes verify(get_root(), k, 256) return one of the
\* defined errors.
C6_AbsentProofFails ==
    status = "open" =>
        \A k \in Keys : kv[k] = None =>
            LET r == TreeProve(disk, root, k)
            IN  (r.st = "ok" /\ r.proof.proof_type \in {"Collision", "Deadend"}) =>
                    \A c \in BOOLEAN :
                        LET y == Verify(r.proof, get_root(root), k, keysize, c)
                        IN  y.st = "err" /\ y.err \in ProofErrors

LastSnap == snaps[Len(snaps)]

\* C7: after a commit, a close and a reopen, every committed key reads back
\* and get_root() is the root hash of before the close.
C7_Persistence ==
    (/\ last.op = "open" /\ last.from = "close"
     /\ snaps # <<>> /\ LastSnap.kv = kv
     /\ \E k \in Keys : IsSome(kv[k])) =>
        /\ status = "open"
        /\ get_root(root) = LastSnap.root
        /\ \A k \in Keys : IsSome(kv[k]) => TreeGet(disk, root, k) = Ok(kv[k])

\* C8: when the last META_SIZE bytes of a file of two or more commits, each
\* of which wrote records, are removed, the reopened tree has the root hash
\* of the commit before the last.
C8_RecoverAfterTruncate ==
    (/\ last.op = "open" /\ last.from = "truncate"
     /\ Len(snaps) >= 2
     /\ snaps[1].size > 0
     /\ \A i \in 2..Len(snaps) : snaps[i].size > snaps[i - 1].size) =>
        /\ status = "open"
        /\ get_root(root) = snaps[Len(snaps) - 1].root

\* C9: when the process stopped during a commit with a part of its bytes
\* unwritten, the reopened tree has the root hash of the last commit that
\* completed.
C9_CrashAtomicity ==
    (/\ last.op = "open" /\ last.from = "crash" /\ last.torn > 0
     /\ snaps # <<>> /\ LastSnap.size > 0) =>
        /\ status = "open"
        /\ get_root(root) = LastSnap.root

\* C10: get(k) of a key that holds no value returns None.
C10_GetAbsent ==
    status = "open" =>
        \A k \in Keys : kv[k] = None => TreeGet(disk, root, k) = Ok(None)

\* C11: a tree handle with no insert has the zero digest as get_root(), and
\* get_root() is not the zero digest once an insert has returned.
C11_RootZeroIffNoInsert ==
    status = "open" =>
        /\ (log = <<>> => get_root(root) = ZeroHash)
        /\ (log # <<>> => get_root(root) # ZeroHash)

C11_Witness ==
    /\ status = "open"
    /\ Len(log) >= 2
    /\ root.t = "Internal"
    /\ get_root(root) # ZeroHash

Present == {k \in Keys : IsSome(kv[k])}

\* C12: when the committed tree holds one key k with value v, prove(k) has
\* no witness hash and verify(get_root(), k, 256) returns v, whether the
\* build checks the subtraction len(witness) - 1 or not.
C12_SingleKeyProof ==
    (status = "open" /\ root.t = "Hash" /\ Cardinality(Present) = 1) =>
        \A k \in Present :
            LET r == TreeProve(disk, root, k)
            IN  /\ r.st = "ok"
                /\ r.proof.node_hashes = <<>>
                /\ \A c \in BOOLEAN :
                       LET y == Verify(r.proof, get_root(root), k, keysize, c)
                       IN  y.st = "ok" /\ Some(y.val) = kv[k]

\* C13: prove(k) returns an Exists proof with the stored value when k holds
\* a value; when k holds none it returns a Deadend proof with no key, value
\* hash or value, or a Collision proof with the key of another leaf of the
\* tree and the hash of that leaf's value.
C13_ProveClassifies ==
    status = "open" =>
        \A k \in Keys :
            LET r == TreeProve(disk, root, k)
            IN  /\ r.st = "ok"
                /\ IsSome(kv[k]) =>
                       r.proof.proof_type = "Exists" /\ r.proof.value = kv[k]
                /\ kv[k] = None =>
                       \/ /\ r.proof.proof_type = "Deadend"
                          /\ r.proof.key = None
                          /\ r.proof.hash = None
                          /\ r.proof.value = None
                       \/ /\ r.proof.proof_type = "Collision"
                          /\ \E k2 \in Present \ {k} :
                                 /\ r.proof.key = Some(k2)
                                 /\ r.proof.hash = Some(sha3(Unwrap(kv[k2])))

\* C14: after an insert(k, v) on a tree that was never committed, prove(k)
\* returns an Exists proof whose value is v.
C14_ProveUncommitted ==
    (InsertDone /\ commits = 0 /\ opens = 0) =>
        LET r == TreeProve(disk, root, last.key)
        IN  /\ r.st = "ok"
            /\ r.proof.proof_type = "Exists"
            /\ r.proof.value = Some(last.value)

\* A node with file index 0 is reachable in memory from n.
RECURSIVE HasDirty(_)
HasDirty(n) ==
    CASE n.t = "Internal" -> n.index = 0 \/ HasDirty(n.left) \/ HasDirty(n.right)
      [] n.t \in {"Leaf", "Hash"} -> n.index = 0
      [] OTHER -> FALSE

\* C15: after a commit that returned, the root of a tree with one or more
\* keys is a Hash node with a file index other than 0 and no node with file
\* index 0 is reachable from it; the root of a tree with no key is Empty.
C15_CommitLeavesHashRoot ==
    (status = "open" /\ last.op = "commit" /\ last.st = "ok") =>
        IF Present = {} THEN root = Empty
        ELSE root.t = "Hash" /\ root.index # 0 /\ ~HasDirty(root)

C15_Witness ==
    /\ status = "open" /\ last.op = "commit" /\ last.st = "ok"
    /\ commits = 2
    /\ Cardinality(Present) >= 2
    /\ root.t = "Hash" /\ root.index # 0

CommitDone == status = "open" /\ last.op = "commit" /\ last.st = "ok"

\* The last META_SIZE bytes of the active data file.
FileTail ==
    LET f == disk[store.index]
    IN  SubSeq(f, Len(f) - META_SIZE + 1, Len(f))

\* C16: after a commit of a tree with one or more keys, the active data file
\* ends with a meta-record (META_MAGIC first) whose root index and leaf flag
\* are those of the new root.
C16_CommitWritesMeta ==
    (CommitDone /\ root.t = "Hash") =>
        /\ Len(disk[store.index]) >= META_SIZE
        /\ ReadLE(SubSeq(FileTail, 1, 4)) = META_MAGIC
        /\ ReadLE(SubSeq(FileTail, 11, 12)) = root.index
        /\ (ReadLE(SubSeq(FileTail, 13, 16)) % 2 = 1) = is_leaf(root)

\* ------------------------------------------- a flipped bit in a leaf record
\* The offsets in a leaf record (tag of vindex, vsize, first key byte) and
\* the bits that are flipped.
FlipOffsets == {0, 6, 8}
FlipBits == {0, 1, 6}

FlipBit(n, b) == IF (n \div (2^b)) % 2 = 1 THEN n - 2^b ELSE n + 2^b

\* The leaf records that a descent from n resolves: the key and the file
\* index and offset of each.
RECURSIVE LeafRecords(_, _)
LeafRecords(d, n) ==
    CASE n.t = "Hash" ->
            LET r == resolve(d, n.index, n.pos, is_leaf(n))
            IN  IF r.st # "ok" THEN {}
                ELSE IF is_leaf(n)
                THEN {[key |-> r.node.key, index |-> n.index, at |-> n.pos \div 2]}
                ELSE LeafRecords(d, r.node)
      [] n.t = "Internal" -> LeafRecords(d, n.left) \cup LeafRecords(d, n.right)
      [] OTHER -> {}

\* Bit b of byte o of a leaf record of the committed tree is flipped in the
\* data file.
Corrupt(o, b) ==
    /\ CommitDone
    /\ root.t = "Hash"
    /\ \E rec \in LeafRecords(disk, root) :
           LET c == disk[rec.index][rec.at + o + 1]
           IN  /\ IsByte(c)
               /\ disk' = [disk EXCEPT ![rec.index][rec.at + o + 1] =
                                           Byte(FlipBit(c[2], b))]
               /\ last' = [op |-> "corrupt", key |-> rec.key,
                           committed |-> TreeGet(disk, root, rec.key),
                           byte |-> o, bit |-> b]
    /\ UNCHANGED <<root, store, status, proof, kv, log, snaps,
                   inserts, commits, opens>>

NextCorrupt ==
    \/ last.op # "corrupt" /\ Next
    \/ \E o \in FlipOffsets, b \in FlipBits : Corrupt(o, b)

SpecCorrupt == Init /\ [][NextCorrupt]_vars

\* C17: when one bit of the persisted leaf record of a key was flipped, a
\* get of that key, which read its committed value before the flip, fails.
C17_CorruptionDetected ==
    (/\ last.op = "corrupt"
     /\ last.committed.st = "ok"
     /\ IsSome(last.committed.val)) =>
        TreeGet(disk, root, last.key).st = "panic"

\* ------------------------------------------------------------ the codecs
\* Node::encode / Node::decode and MetaEntry::encode / MetaEntry::decode
\* applied to inputs drawn from the sets below; `last` holds the input and
\* the results.  File indexes are below 2^15, the range that the tagged
\* 16-bit index fields hold.
CodecIndexes == {1, 2, 32767}
CodecPositions == {0, 83, 2147483647}
CodecHashes == {ZeroHash, sha3_value(0, <<1>>)}

CodecLeaves ==
    {LeafNode(3, 1, h, k, Some(v), vi, vp, 0) :
        h \in CodecHashes, k \in Keys, v \in Values,
        vi \in CodecIndexes, vp \in CodecPositions}

CodecChildren ==
    {Empty}
    \cup {HashNode(i, p, h) : i \in CodecIndexes, p \in CodecPositions, h \in CodecHashes}
    \cup {LeafNode(3, 1, sha3_value(1, <<2, 3>>), 1, Some(<<2, 3>>), 1, 0, 2),
          InternalNode(84, 2, ZeroHash, HashNode(1, 3, sha3_value(0, <<1>>)), Empty)}

CodecInternals ==
    {InternalNode(0, 0, ZeroHash, l, r) : l \in CodecChildren, r \in CodecChildren}

OtherKey == <<"otherkey">>

CodecMetas ==
    {[meta_index |-> mi, meta_pos |-> mp, root_index |-> ri, root_pos |-> rp,
      root_leaf |-> rl] :
        mi \in {0, 1}, mp \in {0, 72}, ri \in {1, 2}, rp \in {0, 41},
        rl \in BOOLEAN}

CodecBufferPositions == {0, 1, 35, 36, 41}

InitCodec ==
    /\ root = Empty
    /\ store = NewStore
    /\ disk = <<>>
    /\ status = "pure"
    /\ proof = NoProof
    /\ kv = EmptyKv
    /\ log = <<>>
    /\ snaps = <<>>
    /\ inserts = 0
    /\ commits = 0
    /\ opens = 0
    /\ last \in {[op |-> "node", node |-> n] : n \in CodecLeaves \cup CodecInternals}
              \cup {[op |-> "meta", meta |-> m, pos |-> bp, key |-> MetaKey] :
                       m \in CodecMetas, bp \in CodecBufferPositions}

CodecFrame ==
    UNCHANGED <<root, store, disk, status, proof, kv, log, snaps,
                inserts, commits, opens>>

EncodeNode ==
    /\ last.op = "node"
    /\ last' = [op |-> "node_encode", node |-> last.node, enc |-> NodeEncode(last.node)]
    /\ CodecFrame

DecodeNode ==
    /\ last.op = "node_encode"
    /\ last.enc.st = "ok"
    /\ last' = [op |-> "node_decode", node |-> last.node,
                dec |-> NodeDecode(last.enc.bits, last.node.t = "Leaf")]
    /\ CodecFrame

EncodeMeta ==
    /\ last.op = "meta"
    /\ last' = [op |-> "meta_encode", meta |-> last.meta, pos |-> last.pos,
                key |-> last.key,
                bits |-> MetaEncode(last.meta, last.pos, last.key)]
    /\ CodecFrame

\* decode of the store (store.rs) or of metadata.rs, of the encoded bytes
\* or of their last META_SIZE bytes (the record without its padding), with
\* the key key2.
DecodeMeta(variant, strip, key2) ==
    /\ last.op = "meta_encode"
    /\ LET bits == IF strip
                   THEN SubSeq(last.bits, Len(last.bits) - META_SIZE + 1, Len(last.bits))
                   ELSE last.bits
       IN  last' = [op |-> "meta_decode", meta |-> last.meta, pos |-> last.pos,
                    key |-> last.key, key2 |-> key2, variant |-> variant,
                    strip |-> strip,
                    dec |-> IF variant = "store" THEN MetaDecode(bits, key2)
                            ELSE MetaDecodeMetadata(bits, key2)]
    /\ CodecFrame

NextCodec ==
    \/ EncodeNode
    \/ DecodeNode
    \/ EncodeMeta
    \/ \E variant \in {"store", "metadata"}, strip \in BOOLEAN,
          key2 \in {MetaKey, OtherKey} : DecodeMeta(variant, strip, key2)

SpecCodec == InitCodec /\ [][NextCodec]_vars

\* The decoded child has the emptiness, file index, position and hash of
\* the child that was encoded.
ChildSame(orig, dec) ==
    IF orig.t = "Empty" THEN dec.t = "Empty"
    ELSE /\ dec.t = "Hash"
         /\ dec.index = index_and_position(orig)[1]
         /\ dec.pos = index_and_position(orig)[2]
         /\ NodeHash(dec) = NodeHash(orig)

\* C18: decode(encode(leaf), true) is a leaf with the key, vindex and vpos
\* of the leaf and vsize the length of its value; decode(encode(internal),
\* false) is an internal whose children have the emptiness, file index,
\* position and hash of the children encoded (Empty or persisted).
C18_NodeCodecRoundTrip ==
    last.op = "node_decode" =>
        /\ last.dec.st = "ok"
        /\ IF last.node.t = "Leaf"
           THEN /\ last.dec.node.t = "Leaf"
                /\ last.dec.node.key = last.node.key
                /\ last.dec.node.vindex = last.node.vindex
                /\ last.dec.node.vpos = last.node.vpos
                /\ last.dec.node.vsize = Len(Unwrap(last.node.value))
           ELSE /\ last.dec.node.t = "Internal"
                /\ ChildSame(last.node.left, last.dec.node.left)
                /\ ChildSame(last.node.right, last.dec.node.right)

C18_Witness ==
    /\ last.op = "node_decode"
    /\ last.node.t = "Internal"
    /\ last.node.left.t = "Leaf"
    /\ last.node.right.t = "Hash"
    /\ last.node.right.index = 32767
    /\ last.dec.st = "ok"
    /\ last.dec.node.right.index = 32767

\* C19: decode(encode(meta, pos, key), key) of the store returns meta, for
\* the encoded bytes as they are and for the record without its padding.
C19_MetaRoundTrip ==
    (last.op = "meta_decode" /\ last.variant = "store" /\ last.key2 = last.key) =>
        last.dec.st = "ok" /\ last.dec.meta = last.meta

\* The length of the active data file.
ActiveFileLen == IF store.index \in DOMAIN disk THEN Len(disk[store.index]) ELSE 0

\* C20: pos of the store is the length of the active data file plus the
\* number of buffered bytes; right after a commit it is the length of the
\* file.
C20_PositionAccounting ==
    status = "open" => store.pos = ActiveFileLen + Len(store.buffer)

\* ------------------------------------------------ locators across commits
\* C21: after the second and every later commit that returned, as after the
\* first, the locators kept in the root and in the persisted records lead
\* get(k) to the value of every committed key.
C21_LocatorsValid ==
    (/\ CommitDone /\ Len(snaps) >= 2 /\ snaps[1].size > 0
     /\ \A i \in 2..Len(snaps) : snaps[i].size > snaps[i - 1].size) =>
        \A k \in Present : TreeGet(disk, root, k) = Ok(kv[k])

\* ------------------------------------------------- commit and the root hash
\* The nodes held in memory under n, n included.
RECURSIVE Subtrees(_)
Subtrees(n) ==
    IF n.t = "Internal" THEN {n} \cup Subtrees(n.left) \cup Subtrees(n.right)
    ELSE {n}

\* C22: get_root() right after a commit that returned is get_root() of right
\* before it, and the hash node that write returns for a node held in memory
\* carries the hash of that node.
C22_CommitKeepsRoot ==
    /\ CommitDone => get_root(root) = last.pre_root
    /\ status = "open" =>
          \A n \in Subtrees(root) :
              LET w == TreeWrite(n, store)
              IN  (w.st = "ok" /\ n.t # "Empty") =>
                      w.node.t = "Hash" /\ w.node.hash = NodeHash(n)

C22_Witness ==
    /\ CommitDone
    /\ Cardinality(Present) >= 2
    /\ last.pre_root # ZeroHash
    /\ last.pre_root[1] = "int"
    /\ root.t = "Hash" /\ get_root(root) = last.pre_root

\* ------------------------------------------------------------ leaf hashes
\* C23: every leaf held in memory has a stored hash other than the zero
\* digest, equal to H_leaf(key, H_raw(value)) of the value it holds.
C23_LeafHashStored ==
    status = "open" =>
        \A n \in Subtrees(root) :
            n.t = "Leaf" =>
                /\ n.hash # ZeroHash
                /\ IsSome(n.value) => n.hash = sha3_value(n.key, Unwrap(n.value))

\* ------------------------------------------------ write order of a commit
\* The buffer that commit would flush, laid out at the positions its
\* records were given.
BufferAsFile ==
    <<Zeros(store.pos - Len(store.buffer)) \o CommitBuffer.s.buffer>>

RecordStart(h) == h.pos \div 2

RecordEnd(h) ==
    RecordStart(h) + (IF is_leaf(h) THEN LEAF_NODE_SIZE ELSE INTERNAL_NODE_SIZE)

\* n is a node held in memory and h the hash node write returned for it:
\* the record of h, read back from the buffer, comes after what it refers to
\* of this commit.
RECURSIVE WrittenInOrder(_, _)
WrittenInOrder(n, h) ==
    LET rec == resolve(BufferAsFile, 1, h.pos, is_leaf(h))
    IN  CASE n.t = "Leaf" ->
                /\ h.t = "Hash" /\ is_leaf(h) /\ rec.st = "ok"
                /\ rec.node.vpos + rec.node.vsize <= RecordStart(h)
                /\ retrieve(BufferAsFile, 1, rec.node.vpos, rec.node.vsize)
                       = [st |-> "ok", bits |-> ValueCells(Unwrap(n.value))]
          [] n.t = "Internal" ->
                /\ h.t = "Hash" /\ ~is_leaf(h) /\ rec.st = "ok"
                /\ n.left.t \in {"Leaf", "Internal"} =>
                       /\ rec.node.left.t = "Hash"
                       /\ RecordEnd(rec.node.left) <= RecordStart(h)
                       /\ WrittenInOrder(n.left, rec.node.left)
                /\ n.right.t \in {"Leaf", "Internal"} =>
                       /\ rec.node.right.t = "Hash"
                       /\ RecordEnd(rec.node.right) <= RecordStart(h)
                       /\ WrittenInOrder(n.right, rec.node.right)
                /\ (n.left.t \in {"Leaf", "Internal"}
                    /\ n.right.t \in {"Leaf", "Internal"}) =>
                       RecordEnd(rec.node.left) <= RecordStart(rec.node.right)
          [] OTHER -> TRUE

\* C24: in the buffer of one commit the value of a leaf lies below the
\* record of the leaf, and the records of the children an internal node
\* had in memory lie below the record of the internal node, left before
\* right.
C24_WriteOrder ==
    (status = "open" /\ CommitBuffer.st = "ok") =>
        WrittenInOrder(root, CommitBuffer.node)

C24_Witness ==
    /\ status = "open" /\ CommitBuffer.st = "ok"
    /\ root.t = "Internal"
    /\ root.left.t = "Internal"
    /\ root.left.left.t = "Leaf" /\ root.left.right.t = "Leaf"
    /\ root.right.t = "Leaf"
    /\ Len(CommitBuffer.s.buffer) > 3 * LEAF_NODE_SIZE + 2 * INTERNAL_NODE_SIZE
    /\ WrittenInOrder(root, CommitBuffer.node)

\* ------------------------------------------------- the store on its own
\* The Store driven through its own operations: records are written with
\* write_value and write_node, and commit is called with the node written
\* last as the root or with no root.  `root` is the node written last.
InitStore ==
    /\ root = Empty
    /\ store = NewStore
    /\ disk = <<>>
    /\ status = "store"
    /\ proof = NoProof
    /\ kv = EmptyKv
    /\ log = <<>>
    /\ snaps = <<>>
    /\ last = [op |-> "new"]
    /\ inserts = 0
    /\ commits = 0
    /\ opens = 0

\* store.write_value(&mut leaf); store.write_node(&mut leaf)
WriteLeaf(k, v) ==
    /\ status = "store"
    /\ inserts < MaxInserts
    /\ LET val == write_value(store, NodeLeaf(k, Some(v)))
           w == write_node(val.s, val.node)
       IN  /\ root' = w.node
           /\ store' = w.s
           /\ last' = [op |-> "write", start |-> val.s.pos]
    /\ inserts' = inserts + 1
    /\ UNCHANGED <<disk, status, proof, kv, log, snaps, commits, opens>>

\* store.write_node(&mut internal) of an internal node over the node written
\* last.
WriteInternal ==
    /\ status = "store"
    /\ inserts < MaxInserts
    /\ root.t \in {"Leaf", "Internal"}
    /\ LET w == write_node(store,
                           InternalNode(0, 0, ZeroHash,
                                        HashNode(root.index, root.pos, NodeHash(root)),
                                        Empty))
       IN  /\ root' = w.node
           /\ store' = w.s
           /\ last' = [op |-> "write", start |-> store.pos]
    /\ inserts' = inserts + 1
    /\ UNCHANGED <<disk, status, proof, kv, log, snaps, commits, opens>>

\* store.commit(Some(&root)) or store.commit(None)
CommitStore(with_root) ==
    /\ status = "store"
    /\ commits < MaxCommits
    /\ LET c == StoreCommit(store, disk, IF with_root THEN Some(root) ELSE None)
       IN  /\ store' = c.s
           /\ disk' = c.d
           /\ last' = [op |-> "commit", with_root |-> with_root, root |-> root,
                       pre_pos |-> store.pos,
                       buffered |-> Len(store.buffer),
                       pre_size |-> ActiveFileLen,
                       size |-> Len(c.d[c.s.index])]
    /\ commits' = commits + 1
    /\ UNCHANGED <<root, status, proof, kv, log, snaps, inserts, opens>>

\* The store is dropped and Store::open is called on the directory.
ReopenStore ==
    /\ status = "store"
    /\ opens < MaxOpens
    /\ LET r == StoreOpen(disk)
       IN  /\ status' = IF r.st = "ok" THEN "store" ELSE "panicked"
           /\ store' = IF r.st = "ok" THEN r.s ELSE NewStore
           /\ last' = [op |-> "open", st |-> r.st]
    /\ root' = Empty
    /\ opens' = opens + 1
    /\ UNCHANGED <<disk, proof, kv, log, snaps, inserts, commits>>

NextStore ==
    \/ \E k \in Keys, v \in Values : WriteLeaf(k, v)
    \/ WriteInternal
    \/ \E b \in BOOLEAN : CommitStore(b)
    \/ ReopenStore

SpecStore == InitStore /\ [][NextStore]_vars

\* The offsets of the active data file at which the magic number stands.
MagicOffsets ==
    LET f == IF store.index \in DOMAIN disk THEN disk[store.index] ELSE <<>>
    IN  {o \in 0..(Len(f) - 4) : SubSeq(f, o + 1, o + 4) = LE(META_MAGIC, 4)}

\* C25: every meta-record of the data file starts at an offset that is a
\* multiple of META_SIZE; the bytes that a commit with a root puts between
\* its records and its meta-record are at most META_SIZE zero bytes.
C25_MetaAligned ==
    status = "store" =>
        /\ \A o \in MagicOffsets : o % META_SIZE = 0
        /\ (last.op = "commit" /\ last.with_root) =>
              LET f == disk[store.index]
                  padding == SubSeq(f, last.pre_size + last.buffered + 1,
                                    last.size - META_SIZE)
              IN  /\ Len(padding) <= META_SIZE
                  /\ padding = Zeros(Len(padding))

\* C26: the root position in the meta-record of a commit is the byte offset
\* given to the root's record, doubled, plus 1 when the root is a leaf; the
\* half of it is that offset.
C26_RootPosTaggedOnce ==
    (/\ status = "store" /\ last.op = "commit" /\ last.with_root
     /\ last.root.t \in {"Leaf", "Internal"}) =>
        LET root_pos == ReadLE(SubSeq(FileTail, 13, 16))
        IN  /\ root_pos = RecordStart(last.root) * 2
                            + (IF is_leaf(last.root) THEN 1 ELSE 0)
            /\ root_pos \div 2 = RecordStart(last.root)
            /\ (root_pos % 2 = 1) = is_leaf(last.root)

\* ------------------------------------------------------ the recovery scan
\* Store::recover_state, recover_meta and Store::open applied to data
\* directories drawn from the sets below.  The first data file is made of
\* META_SIZE-byte blocks and a tail shorter than a block; `log` holds the
\* kinds of its blocks.  A block is a meta-record written under the store's
\* key ("meta1", "meta2"), a record with the magic number whose checksum was
\* made under another key ("bad"), or zero bytes ("data").
MaxBlocks == 3

RecoverMeta1 ==
    [meta_index |-> 0, meta_pos |-> 0, root_index |-> 1, root_pos |-> 3,
     root_leaf |-> TRUE]

RecoverMeta2 ==
    [meta_index |-> 0, meta_pos |-> 0, root_index |-> 1, root_pos |-> 84,
     root_leaf |-> FALSE]

BlockKinds == {"meta1", "meta2", "bad", "data"}

MetaBlock(m, meta_key) ==
    LET bits == MetaEncode(m, 0, meta_key)
    IN  SubSeq(bits, Len(bits) - META_SIZE + 1, Len(bits))

Block(kind) ==
    CASE kind = "meta1" -> MetaBlock(RecoverMeta1, MetaKey)
      [] kind = "meta2" -> MetaBlock(RecoverMeta2, MetaKey)
      [] kind = "bad" -> MetaBlock(RecoverMeta1, OtherKey)
      [] OTHER -> Zeros(META_SIZE)

RECURSIVE FileOf(_)
FileOf(kinds) ==
    IF kinds = <<>> THEN <<>> ELSE Block(Head(kinds)) \o FileOf(Tail(kinds))

RecoverFiles == UNION {[1..n -> BlockKinds] : n \in 0..MaxBlocks}

RecoverTails == {0, 5}

InitRecover ==
    /\ \E kinds \in RecoverFiles, tail \in RecoverTails, second \in BOOLEAN :
          /\ log = kinds
          /\ disk = <<FileOf(kinds) \o Zeros(tail)>>
                    \o (IF second THEN <<Zeros(5)>> ELSE <<>>)
    /\ root = NoRoot
    /\ store = NewStore
    /\ status = "recover"
    /\ proof = NoProof
    /\ kv = EmptyKv
    /\ snaps = <<>>
    /\ last = [op |-> "new"]
    /\ inserts = 0
    /\ commits = 0
    /\ opens = 0

RecoverFrame ==
    UNCHANGED <<root, store, disk, status, proof, kv, log, snaps,
                inserts, commits, opens>>

\* Store::recover_state(&files, &dir, key)
RecoverState ==
    /\ status = "recover"
    /\ last' = [op |-> "recover_state",
                res |-> recover_state(disk, Len(disk), MetaKey)]
    /\ RecoverFrame

\* recover_meta(path of data file i, i, key)
RecoverMeta(i) ==
    /\ status = "recover"
    /\ i \in DOMAIN disk
    /\ last' = [op |-> "recover_meta", file |-> i,
                res |-> recover_meta(disk[i], i, MetaKey)]
    /\ RecoverFrame

\* UrkelTree::new() over Store::open on the directory.
OpenStore ==
    /\ status = "recover"
    /\ LET r == StoreOpen(disk)
       IN  /\ root' = IF r.st = "ok" THEN Empty ELSE NoRoot
           /\ store' = IF r.st = "ok" THEN r.s ELSE NewStore
           /\ last' = [op |-> "open", res |-> r]
    /\ UNCHANGED <<disk, status, proof, kv, log, snaps, inserts, commits, opens>>

NextRecover ==
    \/ RecoverState
    \/ \E i \in 1..2 : RecoverMeta(i)
    \/ OpenStore

SpecRecover == InitRecover /\ [][NextRecover]_vars

\* The blocks of the first data file that hold a meta-record written under
\* the store's key.
ValidBlocks == {i \in 1..Len(log) : log[i] \in {"meta1", "meta2"}}

BadBlocks == {i \in 1..Len(log) : log[i] = "bad"}

Highest(S) == CHOOSE i \in S : \A j \in S : j <= i

BlockMeta(i) == IF log[i] = "meta1" THEN RecoverMeta1 ELSE RecoverMeta2

\* The scan of the first data file has run: by recover_state on a directory
\* of one file, or by recover_meta on file 1.
ScannedFirst ==
    /\ status = "recover"
    /\ \/ last.op = "recover_state" /\ Len(disk) = 1
       \/ last.op = "recover_meta" /\ last.file = 1

\* C27: when a block with the magic number and a checksum that does not
\* verify lies above a valid meta-record, the scan goes on to lower offsets
\* and returns the valid record.
C27_SkipsInvalid ==
    (/\ ScannedFirst
     /\ ValidBlocks # {}
     /\ \E b \in BadBlocks : b > Highest(ValidBlocks)) =>
        /\ last.res.st = "ok"
        /\ last.res.last_state = BlockMeta(Highest(ValidBlocks))

\* C28: the scan returns the valid meta-record at the highest offset of the
\* file, with meta_index the index of the scanned file and meta_pos the file
\* offset of the record.
C28_MostRecentMeta ==
    (ScannedFirst /\ ValidBlocks # {}) =>
        /\ last.res.st = "ok"
        /\ last.res.last_state = BlockMeta(Highest(ValidBlocks))
        /\ last.res.state.meta_index = 1
        /\ last.res.state.meta_pos = (Highest(ValidBlocks) - 1) * META_SIZE

\* The directory holds no meta-record written under the store's key.
NoValidMeta == ValidBlocks = {}

\* C29: Store::open on a directory whose data files hold no valid
\* meta-record succeeds with an empty store and the tree starts with the
\* root Empty.
C29_OpenWithoutMeta ==
    (status = "recover" /\ last.op = "open" /\ NoValidMeta /\ log # <<>>) =>
        /\ last.res.st = "ok"
        /\ store.state = DefaultMeta
        /\ root = Empty
        /\ get_root(root) = sha3_zero_hash

\* C30: the scan of a file of any size and content ends with a meta-record
\* or with not found; it does not abort on an empty window.
C30_ScanTerminates ==
    (status = "recover" /\ last.op \in {"recover_state", "recover_meta"}) =>
        /\ last.res.st \in {"ok", "none", "err"}
        /\ last.res.st = "err" => last.res.msg = "Didn't find it! What's a meta with you?"

\* ------------------------------------------------------- reads and errors
\* C31: a step of get(k) or prove(k), on a root that is a hash node to
\* resolve as on any other, leaves the root, the store (buffer and pos
\* included) and the data files as they were.
C31_ReadsDoNotMutate ==
    [][last'.op \in {"get", "prove"} => UNCHANGED <<root, store, disk>>]_vars

C31_Witness ==
    /\ status = "open"
    /\ last.op \in {"get", "prove"}
    /\ last.res.st = "ok"
    /\ root.t = "Hash"
    /\ disk # <<>>

\* C32: when insert fails (a hash node that cannot be resolved, a corrupt
\* record, the depth check), the tree has the root it had before the call.
C32_InsertErrorKeepsRoot ==
    (last.op = "insert" /\ last.st = "panic") =>
        /\ root # NoRoot
        /\ get_root(root) = last.pre_root

\* ------------------------------------------------- decode of any record
\* Node::decode applied to the records of the codec inputs, as encoded and
\* with the low bit of their first byte (the tag of vindex, or of the left
\* child's index) flipped.
CodecRecords ==
    {[op |-> "record", leaf |-> n.t = "Leaf", flipped |-> f,
      bits |-> IF f
               THEN <<Byte(FlipBit(NodeEncode(n).bits[1][2], 0))>>
                    \o Tail(NodeEncode(n).bits)
               ELSE NodeEncode(n).bits] :
        n \in CodecLeaves \cup CodecInternals, f \in BOOLEAN}

InitDecode ==
    /\ root = Empty
    /\ store = NewStore
    /\ disk = <<>>
    /\ status = "pure"
    /\ proof = NoProof
    /\ kv = EmptyKv
    /\ log = <<>>
    /\ snaps = <<>>
    /\ inserts = 0
    /\ commits = 0
    /\ opens = 0
    /\ last \in CodecRecords

DecodeRecord ==
    /\ last.op = "record"
    /\ last' = [op |-> "record_decode", leaf |-> last.leaf, bits |-> last.bits,
                flipped |-> last.flipped,
                dec |-> NodeDecode(last.bits, last.leaf)]
    /\ CodecFrame

NextDecode == DecodeRecord

SpecDecode == InitDecode /\ [][NextDecode]_vars

Corruption == [st |-> "panic", msg |-> "Database is corrupt!"]

\* C33: decode of a leaf record whose vindex field is even, or of an
\* internal record whose left index field is odd, fails with the corruption
\* error; in an internal record that decodes, a child with index 0 is Empty
\* and any other child is a hash node with that index.
C33_ParityEnforced ==
    last.op = "record_decode" =>
        LET tag == ReadLE(SubSeq(last.bits, 1, 2))
            rindex == ReadLE(SubSeq(last.bits, 39, 40))
        IN  IF last.leaf
            THEN (tag % 2 = 0) => last.dec = Corruption
            ELSE IF tag % 2 = 1 THEN last.dec = Corruption
            ELSE /\ last.dec.st = "ok"
                 /\ last.dec.node.t = "Internal"
                 /\ IF tag \div 2 = 0 THEN last.dec.node.left = Empty
                    ELSE /\ last.dec.node.left.t = "Hash"
                         /\ last.dec.node.left.index = tag \div 2
                 /\ IF rindex = 0 THEN last.dec.node.right = Empty
                    ELSE /\ last.dec.node.right.t = "Hash"
                         /\ last.dec.node.right.index = rindex

C33_Witness ==
    /\ last.op = "record_decode"
    /\ last.leaf /\ last.flipped
    /\ ReadLE(SubSeq(last.bits, 1, 2)) % 2 = 0
    /\ last.dec = Corruption

\* ---------------------------------------------------------- the leaf tag
\* C34: the low bit of pos of a hash node is 1 iff the node it stands for is
\* a leaf: for the hash nodes held in memory (the root after a commit, the
\* children of a decoded internal record), whose hash tells the kind of the
\* node, and for the hash node write returns for any node in memory, whose
\* record resolve reads back from the written bytes at pos >> 1 with the size
\* of its kind.
C34_LeafTag ==
    status = "open" =>
        \A n \in Subtrees(root) :
            /\ n.t = "Hash" => (is_leaf(n) <=> n.hash[1] # "int")
            /\ LET w == TreeWrite(n, store)
                   file == <<Zeros(store.pos - Len(store.buffer)) \o w.s.buffer>>
               IN  (n.t \in {"Leaf", "Internal"} /\ w.st = "ok") =>
                       /\ w.node.t = "Hash"
                       /\ is_leaf(w.node) <=> n.t = "Leaf"
                       /\ LET rec == resolve(file, 1, w.node.pos, is_leaf(w.node))
                          IN  rec.st = "ok" /\ rec.node.t = n.t

C34_Witness ==
    /\ status = "open"
    /\ root.t = "Internal"
    /\ root.left.t = "Hash" /\ ~is_leaf(root.left) /\ root.left.hash[1] = "int"
    /\ root.right.t = "Leaf"
    /\ TreeWrite(root, store).st = "ok"
    /\ ~is_leaf(TreeWrite(root, store).node)
    /\ is_leaf(TreeWrite(root.right, store).node)

\* ------------------------------------------------------------ the verifier
\* C35: a Deadend proof with witnesses and no key, no value hash and no
\* value passes is_sane, and verify does not reject it as malformed: what
\* it returns is decided by the fold that starts from the zero digest.
C35_DeadendWellFormed ==
    (/\ last.op = "verify"
     /\ last.before.proof_type = "Deadend"
     /\ last.before.node_hashes # <<>>
     /\ last.before.key = None /\ last.before.hash = None
     /\ last.before.value = None) =>
        /\ is_sane(last.before, keysize)
        /\ ~(last.res.st = "err" /\ last.res.err = "Unknown")
        /\ (VerifyFold(last.before.node_hashes, Len(last.before.node_hashes),
                       sha3_zero_hash, last.key,
                       Len(last.before.node_hashes) - 1) # get_root(root))
              => (last.res.st = "err" /\ last.res.err = "Head Mismatch")

\* ------------------------------------------- verify with chosen arguments
\* p.verify(root_hash, key, 256) on the proof that prove has just returned,
\* with the arguments and the proof as the caller chooses them: root_hash
\* is the root of the tree or another digest, key the key proved or the key
\* of the proof, and the value of an Exists proof is left as it is or
\* replaced.
OtherRoots == {ZeroHash, sha3_internal(ZeroHash, ZeroHash)}

\* The root_hash argument: <<"root">> stands for get_root() of the tree.
RootChoices == {<<"root">>} \cup OtherRoots

ValueChoices == {None} \cup {Some(v) : v \in Values}

VerifyWith(root_choice, key, value, checks) ==
    /\ status = "open"
    /\ proof # NoProof
    /\ last.op = "prove"
    /\ root_choice # get_root(root)
    /\ key = proof[1].key \/ proof[1].p.key = Some(key)
    /\ IsSome(value) =>
          /\ proof[1].p.proof_type = "Exists"
          /\ proof[1].p.value # value
    /\ LET p == IF IsSome(value) THEN [proof[1].p EXCEPT !.value = value]
                ELSE proof[1].p
           root_hash == IF root_choice = <<"root">> THEN get_root(root)
                        ELSE root_choice
           r == Verify(p, root_hash, key, keysize, checks)
       IN  /\ status' = IF r.st = "panic" THEN "panicked" ELSE "open"
           /\ proof' = <<[proof[1] EXCEPT !.p = r.p]>>
           /\ last' = [op |-> "verify_with", root_hash |-> root_hash,
                       key |-> key, proved |-> proof[1].key, p |-> p,
                       changed |-> IsSome(value), checks |-> checks,
                       root |-> get_root(root), res |-> r]
    /\ UNCHANGED <<root, store, disk, kv, log, snaps,
                   inserts, commits, opens>>

NextVerify ==
    \/ \E k \in Keys, v \in Values : Insert(k, v)
    \/ \E k \in Keys : Prove(k)
    \/ Commit
    \/ \E r \in RootChoices, k \in Keys, v \in ValueChoices, c \in BOOLEAN :
          VerifyWith(r, k, v, c)

SpecVerify == Init /\ [][NextVerify]_vars

HeadMismatch(r) == r.st = "err" /\ r.err = "Head Mismatch"

\* C36: verify returns a value only when the fold of the leaf input with the
\* witnesses is root_hash; of a proof made by prove(k), verify with k and a
\* root_hash other than the root of the tree, and verify of an Exists proof
\* with a changed value, return "Head Mismatch"; a Collision proof whose key
\* is the query key returns "Same Key".
C36_VerifySound ==
    last.op = "verify_with" =>
        /\ last.res.st = "ok" =>
              VerifyFold(last.p.node_hashes, Len(last.p.node_hashes),
                         VerifyLeaf(last.p, last.key), last.key,
                         Len(last.p.node_hashes) - 1) = last.root_hash
        /\ (last.key = last.proved /\ ~last.changed /\ last.root_hash # last.root)
              => HeadMismatch(last.res)
        /\ (last.key = last.proved /\ last.changed /\ last.root_hash = last.root)
              => HeadMismatch(last.res)
        /\ (last.p.proof_type = "Collision" /\ last.p.key = Some(last.key))
              => (last.res.st = "err" /\ last.res.err = "Same Key")

\* C37: verify is repeatable.  After a verify of an Exists proof that
\* returned a value, the proof is what it was before the call (type,
\* witnesses, key, value hash and value), and the same call on it again
\* returns the same value.
C37_VerifyRepeatable ==
    (last.op = "verify" /\ last.before.proof_type = "Exists"
        /\ last.res.st = "ok" /\ status = "open" /\ proof # NoProof)
    => /\ proof[1].p = last.before
       /\ LET again == Verify(proof[1].p, get_root(root), last.key, keysize,
                              last.checks)
          IN  again.st = "ok" /\ again.val = last.res.val

\* The leaves of a tree with the path that leads to each: <<key, path>>,
\* path[i] = 1 when step i goes right.
RECURSIVE LeavesAt(_, _)
LeavesAt(n, path) ==
    IF n.t = "Leaf" THEN {<<n.key, path>>}
    ELSE IF n.t = "Internal"
    THEN LeavesAt(n.left, Append(path, 0)) \cup LeavesAt(n.right, Append(path, 1))
    ELSE {}

InsertsOnly == status = "open" /\ commits = 0 /\ opens = 0

\* C38: canonical trie shape.  In a tree built by inserts alone every leaf
\* is on the path spelled by the leading bits of its own key, no two leaves
\* have the same key, every internal node has a non-Empty child, and an
\* internal node with an Empty child does not have a leaf as its other
\* child.
C38_CanonicalShape ==
    InsertsOnly =>
        /\ \A n \in Subtrees(root) : n.t \in {"Leaf", "Internal", "Empty"}
        /\ \A l \in LeavesAt(root, <<>>) :
              \A i \in 1..Len(l[2]) : has_bit(l[1], i - 1) <=> (l[2][i] = 1)
        /\ \A a, b \in LeavesAt(root, <<>>) : a[1] = b[1] => a = b
        /\ \A n \in Subtrees(root) :
              n.t = "Internal" =>
                 /\ ~(n.left.t = "Empty" /\ n.right.t = "Empty")
                 /\ n.left.t = "Empty" => n.right.t # "Leaf"
                 /\ n.right.t = "Empty" => n.left.t # "Leaf"

C38_Witness ==
    /\ InsertsOnly
    /\ last.op = "insert"
    /\ Cardinality(LeavesAt(root, <<>>)) = 2
    /\ \E n \in Subtrees(root) :
          n.t = "Internal" /\ (n.left.t = "Empty" \/ n.right.t = "Empty")

\* ------------------------------------------- lib.rs: UrkelTree::prove
\* The prove of src/src/lib.rs on a copy of the root.  Its Hash arm has an
\* empty body: the iteration leaves current, depth and proof as they were,
\* so the loop never ends (st = "diverges").
RECURSIVE TreeProveLibFrom(_, _, _, _)
TreeProveLibFrom(cur, depth, p, nkey) ==
    CASE cur.t = "Empty" -> [st |-> "ok", proof |-> p]
      [] cur.t = "Hash" -> [st |-> "diverges", msg |-> "prove: Node::Hash"]
      [] cur.t = "Internal" ->
            IF depth = keysize
            THEN [st |-> "panic", msg |-> "Missing node at depth"]
            ELSE IF has_bit(nkey, depth)
            THEN TreeProveLibFrom(cur.right, depth + 1,
                                  [p EXCEPT !.node_hashes = Append(@, NodeHash(cur.left))],
                                  nkey)
            ELSE TreeProveLibFrom(cur.left, depth + 1,
                                  [p EXCEPT !.node_hashes = Append(@, NodeHash(cur.right))],
                                  nkey)
      [] cur.t = "Leaf" ->
            IF nkey = cur.key
            THEN [st |-> "ok",
                  proof |-> [p EXCEPT !.proof_type = "Exists", !.value = cur.value]]
            ELSE IF IsSome(cur.value)
            THEN [st |-> "ok",
                  proof |-> [p EXCEPT !.proof_type = "Collision",
                                      !.key = Some(cur.key),
                                      !.hash = Some(sha3(Unwrap(cur.value)))]]
            ELSE [st |-> "panic", msg |-> "called Option::unwrap() on a None value"]
      [] OTHER -> [st |-> "panic", msg |-> "called Option::unwrap() on a None value"]

TreeProveLib(r, nkey) == TreeProveLibFrom(r, 0, NewProof, nkey)

\* t.prove(k) of src/src/lib.rs; status "hung": the call does not return.
ProveLib(k) ==
    /\ status = "open"
    /\ LET r == TreeProveLib(root, k)
       IN  /\ status' = IF r.st = "ok" THEN "open"
                        ELSE IF r.st = "diverges" THEN "hung" ELSE "panicked"
           /\ proof' = IF r.st = "ok" THEN <<[key |-> k, p |-> r.proof]>> ELSE NoProof
           /\ last' = [op |-> "prove_lib", key |-> k, res |-> r]
    /\ UNCHANGED <<root, store, disk, kv, log, snaps,
                   inserts, commits, opens>>

NextTerm ==
    \/ \E k \in Keys, v \in Values : Insert(k, v)
    \/ \E k \in Keys : Get(k)
    \/ \E k \in Keys : Prove(k)
    \/ \E k \in Keys : ProveLib(k)
    \/ Commit

SpecTerm == Init /\ [][NextTerm]_vars

DepthAborts ==
    {"Insert: missing node at depth", "Proof: missing node at depth",
     "Missing node at depth"}

\* The internal nodes of a tree with their depth: <<node, depth>>.
RECURSIVE InternalsAt(_, _)
InternalsAt(n, depth) ==
    IF n.t = "Internal"
    THEN {<<n, depth>>} \cup InternalsAt(n.left, depth + 1)
                       \cup InternalsAt(n.right, depth + 1)
    ELSE {}

\* C39: insert, get and prove terminate on every tree made by insert and
\* commit, hash nodes included, and never reach the depth-overflow abort:
\* a prove that was called has returned or aborted, no key makes insert or
\* prove abort on the depth check, the skip-compression loop of two
\* different keys stops below the key size, and no internal node of the
\* tree is at a depth where the keys no longer differ.
C39_Terminates ==
    /\ last.op = "prove_lib" => last.res.st # "diverges"
    /\ last.op \in {"get", "prove"} => last.res.st # "diverges"
    /\ status = "open" =>
          \A k \in Keys :
             /\ \A v \in Values :
                   LET r == TreeInsert(disk, root, k, v)
                   IN  r.st = "panic" => r.msg \notin DepthAborts
             /\ LET r == TreeProve(disk, root, k)
                IN  r.st = "panic" => r.msg \notin DepthAborts
             /\ LET r == TreeProveLib(root, k)
                IN  r.st = "panic" => r.msg \notin DepthAborts
    /\ \A a, b \in Keys : a # b => SkipDepth(a, b, 0) < KeyBits
    /\ \A n \in InternalsAt(root, 0) : n[2] < KeyBits

====
